---- MODULE Spec2Model ----
(***************************************************************************)
(* TTS number generator: the batch pipeline of generate_numbers.py and     *)
(* generate_numbers_elevenlabs.py (skip-on-exists, per-item rate-limit     *)
(* backoff, batch-level retry passes, archive, summary) as a state machine *)
(* of one process at a time working on the output directory.               *)
(***************************************************************************)
EXTENDS Integers, Sequences, FiniteSets, TLC

(* ---------------------------- bounds ----------------------------------- *)
\* largest number a run may be asked to generate
MaxNum == 2
\* number of processes started one after the other on the same directory
MaxRuns == 2
MaxWord == 999

(* ------------------------ program constants ---------------------------- *)
\* generate_single_audio: max_retries = 5
max_retries == 5
\* generate_single_audio(self, number, retry_delay=60)
retry_delay == 60
\* retry_failed(self, max_retries=3)
max_retry_passes == 3
\* generate_summary_report: total_expected = 8000
total_expected == 8000
\* generate_summary_report: self.failed_numbers[:10]
failed_shown == 10
\* f"{number:05d}.wav": minimum field width of the index
name_width == 5

(* ------------------------------ texts ---------------------------------- *)
\* A text is a sequence of one-character strings.
ErrGeneratingTemplate ==
    <<"E", "r", "r", "o", "r", " ", "g", "e", "n", "e", "r", "a", "t", "i",
      "n", "g", " ", "a", "u", "d", "i", "o", " ", "f", "o", "r", " ", "%",
      "s", ":", " ", "%", "s">>
ErrExhaustedTemplate ==
    <<"F", "a", "i", "l", "e", "d", " ", "t", "o", " ", "g", "e", "n", "e",
      "r", "a", "t", "e", " ", "a", "u", "d", "i", "o", " ", "f", "o", "r",
      " ", "%", "s", " ", "a", "f", "t", "e", "r", " ", "%", "s", " ", "r",
      "a", "t", "e", " ", "l", "i", "m", "i", "t", " ", "r", "e", "t", "r",
      "i", "e", "s">>
\* texts of the exceptions the environment raises (str(e))
TextRateLimit ==
    <<"R", "a", "t", "e", " ", "l", "i", "m", "i", "t", " ", "r", "e", "a",
      "c", "h", "e", "d">>
Text429 ==
    <<"E", "r", "r", "o", "r", " ", "c", "o", "d", "e", ":", " ", "4", "2",
      "9">>
TextQuota ==
    <<"Q", "u", "o", "t", "a", " ", "e", "x", "c", "e", "e", "d", "e", "d">>
TextConnection ==
    <<"C", "o", "n", "n", "e", "c", "t", "i", "o", "n", " ", "r", "e", "s",
      "e", "t">>
TextNoSpace ==
    <<"N", "o", " ", "s", "p", "a", "c", "e", " ", "l", "e", "f", "t", " ",
      "o", "n", " ", "d", "e", "v", "i", "c", "e">>
AdapterErrors == {TextRateLimit, Text429, TextQuota, TextConnection}

KwRateLimit ==
    <<"r", "a", "t", "e", " ", "l", "i", "m", "i", "t">>
Kw429 ==
    <<"4", "2", "9">>
KwQuota ==
    <<"q", "u", "o", "t", "a">>
WavExt ==
    <<".", "w", "a", "v">>

\* str.lower() on the characters that occur in the texts
LowerChar(c) ==
    CASE c = "C" -> "c" [] c = "E" -> "e" [] c = "N" -> "n"
      [] c = "Q" -> "q" [] c = "R" -> "r" [] OTHER -> c
Lower(s) == [k \in 1..Len(s) |-> LowerChar(s[k])]
\* Python's  sub in s
Contains(sub, s) ==
    \E k \in 0..(Len(s) - Len(sub)) :
        \A j \in 1..Len(sub) : s[k + j] = sub[j]

\* a test that takes every error for a rate limit
IsRateLimit_Any(v, e) == TRUE

\* a test that compares the raw text, without lower()
IsRateLimit_CaseSensitive(v, e) ==
    \/ Contains(KwRateLimit, e)
    \/ Contains(Kw429, e)
    \/ (v = "elevenlabs" /\ Contains(KwQuota, e))

\* the test of the except branch: is this error a rate limit?
IsRateLimit(v, e) ==
    LET error_msg == Lower(e) IN
    \/ Contains(KwRateLimit, error_msg)
    \/ Contains(Kw429, error_msg)
    \/ (v = "elevenlabs" /\ Contains(KwQuota, error_msg))

\* a backoff that grows linearly
WaitTime_Linear(rc) == retry_delay * rc

\* wait_time = retry_delay * (2 ** (retry_count - 1))
WaitTime(rc) == retry_delay * (2 ^ (rc - 1))

\* a loop that runs once more
MoreAttempts_Inclusive(rc) == rc <= max_retries

\* while retry_count < max_retries
MoreAttempts(rc) == rc < max_retries

(* --------------------------- file names -------------------------------- *)
DigitChar(d) ==
    CASE d = 0 -> "0" [] d = 1 -> "1" [] d = 2 -> "2" [] d = 3 -> "3"
      [] d = 4 -> "4" [] d = 5 -> "5" [] d = 6 -> "6" [] d = 7 -> "7"
      [] d = 8 -> "8" [] d = 9 -> "9"
RECURSIVE Decimal(_)
Decimal(n) == IF n < 10 THEN <<DigitChar(n)>>
              ELSE Append(Decimal(n \div 10), DigitChar(n % 10))
RECURSIVE ZeroPad(_, _)
ZeroPad(s, w) == IF Len(s) >= w THEN s ELSE ZeroPad(<<"0">> \o s, w)
\* generate_single_audio: f"{number:05d}.wav"
OutputFile(n) == ZeroPad(Decimal(n), name_width) \o WavExt
\* a generate_batch that looks for the bare number
BatchOutputFile_Unpadded(n) == Decimal(n) \o WavExt
\* generate_batch: f"{i:05d}.wav"
BatchOutputFile(n) == ZeroPad(Decimal(n), name_width) \o WavExt

(* ------------------------- number_to_words ----------------------------- *)
\* the list ones of number_to_words; ones[k] of the code is ones[k + 1] here
ones ==
    <<<<>>,
      <<"o", "n", "e">>,
      <<"t", "w", "o">>,
      <<"t", "h", "r", "e", "e">>,
      <<"f", "o", "u", "r">>,
      <<"f", "i", "v", "e">>,
      <<"s", "i", "x">>,
      <<"s", "e", "v", "e", "n">>,
      <<"e", "i", "g", "h", "t">>,
      <<"n", "i", "n", "e">>,
      <<"t", "e", "n">>,
      <<"e", "l", "e", "v", "e", "n">>,
      <<"t", "w", "e", "l", "v", "e">>,
      <<"t", "h", "i", "r", "t", "e", "e", "n">>,
      <<"f", "o", "u", "r", "t", "e", "e", "n">>,
      <<"f", "i", "f", "t", "e", "e", "n">>,
      <<"s", "i", "x", "t", "e", "e", "n">>,
      <<"s", "e", "v", "e", "n", "t", "e", "e", "n">>,
      <<"e", "i", "g", "h", "t", "e", "e", "n">>,
      <<"n", "i", "n", "e", "t", "e", "e", "n">>>>

\* tens without its two empty entries
tens_Shifted ==
    <<<<"t", "w", "e", "n", "t", "y">>,
      <<"t", "h", "i", "r", "t", "y">>,
      <<"f", "o", "r", "t", "y">>,
      <<"f", "i", "f", "t", "y">>,
      <<"s", "i", "x", "t", "y">>,
      <<"s", "e", "v", "e", "n", "t", "y">>,
      <<"e", "i", "g", "h", "t", "y">>,
      <<"n", "i", "n", "e", "t", "y">>,
      <<>>,
      <<>>>>

\* the list tens of number_to_words; tens[k] of the code is tens[k + 1] here
tens ==
    <<<<>>,
      <<>>,
      <<"t", "w", "e", "n", "t", "y">>,
      <<"t", "h", "i", "r", "t", "y">>,
      <<"f", "o", "r", "t", "y">>,
      <<"f", "i", "f", "t", "y">>,
      <<"s", "i", "x", "t", "y">>,
      <<"s", "e", "v", "e", "n", "t", "y">>,
      <<"e", "i", "g", "h", "t", "y">>,
      <<"n", "i", "n", "e", "t", "y">>>>

WordZero == <<"z", "e", "r", "o">>
WordOneHundred == <<"o", "n", "e", " ", "h", "u", "n", "d", "r", "e", "d">>
WordTwoHundred == <<"t", "w", "o", " ", "h", "u", "n", "d", "r", "e", "d">>
\* the band 101-109 read with its hundred
WordOneOh_Hundred == <<"o", "n", "e", " ", "h", "u", "n", "d", "r", "e", "d", " ">>
WordOneOh == <<"o", "n", "e", " ", "o", "h", " ">>
WordTwoOh == <<"t", "w", "o", " ", "o", "h", " ">>
WordOne == <<"o", "n", "e", " ">>
WordTwo == <<"t", "w", "o", " ">>
WordHundred == <<" ", "h", "u", "n", "d", "r", "e", "d">>
WordOh == <<" ", "o", "h", " ">>
\* the thousands word with a space on both sides
WordThousand_Spaced == <<" ", "t", "h", "o", "u", "s", "a", "n", "d", " ">>
WordThousand == <<" ", "t", "h", "o", "u", "s", "a", "n", "d">>
Space == <<" ">>

\* number_to_words(num), branch by branch
RECURSIVE number_to_words(_)
number_to_words(num) ==
    IF num = 0 THEN WordZero
    ELSE IF num < 20 THEN ones[num + 1]
    ELSE IF num < 100 THEN
        tens[(num \div 10) + 1]
        \o (IF num % 10 # 0 THEN Space \o ones[(num % 10) + 1] ELSE <<>>)
    ELSE IF num = 100 THEN WordOneHundred
    ELSE IF num < 200 THEN
        LET remainder == num % 100
        IN  IF remainder < 10 THEN WordOneOh \o ones[remainder + 1]
            ELSE WordOne \o number_to_words(remainder)
    ELSE IF num < 300 THEN
        LET remainder == num % 100
        IN  IF remainder = 0 THEN WordTwoHundred
            ELSE IF remainder < 10 THEN WordTwoOh \o ones[remainder + 1]
            ELSE WordTwo \o number_to_words(remainder)
    ELSE IF num < 1000 THEN
        LET hundreds_digit == num \div 100
            remainder == num % 100
        IN  IF remainder = 0 THEN ones[hundreds_digit + 1] \o WordHundred
            ELSE IF remainder < 10
            THEN ones[hundreds_digit + 1] \o WordOh \o ones[remainder + 1]
            ELSE ones[hundreds_digit + 1] \o Space
                 \o number_to_words(remainder)
    ELSE IF num < 1000000 THEN
        LET thousands == num \div 1000
            remainder == num % 1000
        IN  number_to_words(thousands) \o WordThousand
            \o (IF remainder # 0 THEN Space \o number_to_words(remainder)
                ELSE <<>>)
    ELSE Decimal(num)

\* the sample vibe prompt and f"[Voice direction: {self.vibe_prompt}] {text}"
VibePrompt == <<"c", "a", "l", "m">>
VoiceDirection(t) ==
    <<"[", "V", "o", "i", "c", "e", " ", "d", "i", "r", "e", "c", "t", "i", "o", "n", ":", " ">>
    \o VibePrompt \o <<"]", " ">> \o t

\* the input generate_single_audio hands to the Adapter for number n
Text(n, direction) ==
    IF direction THEN VoiceDirection(number_to_words(n))
    ELSE number_to_words(n)


Numbers == 1..MaxNum
FileNames == {OutputFile(n) : n \in Numbers}

(* ------------------------------ state ---------------------------------- *)
VARIABLES
    variant,         \* which program runs: "openai" or "elevenlabs"
    api_key,         \* is the provider credential configured
    start_num,       \* args.start
    end_num,         \* args.end
    list_mode,       \* args.list_vibes (openai), args.list_voices (elevenlabs)
    vibe_file,       \* args.vibe_file: "absent" | "valid" | "invalid" (openai)
    throttled,       \* numbers the provider rate-limits on every call
    voice_direction, \* self.vibe_prompt and self.model == "gpt-4o-mini-tts"
    files,           \* output directory: file name -> "none" | "partial" | "full"
    run,             \* number of the process working on the directory
    pc,              \* position of the process
    exit_code,       \* exit status of the finished process, -1 while it runs
    failed_numbers,  \* self.failed_numbers: sequence of <<number, error>>
    i,               \* loop variable of generate_batch
    successful,      \* generate_batch: successful
    retry_pass,      \* loop variable retry_count of retry_failed
    current_failed,  \* retry_failed: items of current_failed not yet retried
    caller,          \* who called generate_single_audio: "batch" | "retry"
    number,          \* generate_single_audio: number
    retry_count,     \* generate_single_audio: retry_count
    text,            \* generate_single_audio: text handed to the Adapter
    output_file,     \* generate_single_audio: name of output_file
    other,           \* a second process on the directory, while it is off the
                     \* processor: its position, fields and locals
    preempted,       \* a process was taken off the processor in mid-run
    zip_result,      \* return value of create_zip_archive, "none" before
    report,          \* what generate_summary_report logged, NoReport before
    \* observations of what the process did
    attempts,        \* network calls of the current invocation
    waits,           \* backoff sleeps of the current invocation, in order
    last_response,   \* text of the last response or error of the invocation
    last_result,     \* "pending" inside the invocation, then what it returned
    called,          \* numbers the Adapter was called for in this run
    calls,           \* for each index that is watched: the Adapter calls made
                     \* for it in this run, and how many were answered Other
    sleeps,          \* numbers after which generate_batch slept the delay
    retried,         \* numbers retry_failed invoked generate_single_audio for
    batch_failed,    \* numbers generate_batch appended to failed_numbers
    pass_start,      \* numbers of the failed list when the current pass began
    pass_invoked,    \* numbers the current pass has invoked, in order
    files_at_start,  \* the directory as the process found it
    interrupted,     \* the process was stopped by KeyboardInterrupt
    resumed          \* the previous process was stopped by KeyboardInterrupt

vars == <<variant, api_key, start_num, end_num, list_mode, vibe_file,
          throttled, files, run, pc, exit_code,
          failed_numbers, i, successful, retry_pass, current_failed, caller,
          number, retry_count, zip_result, report, attempts, waits,
          last_response, last_result, called, sleeps, retried, batch_failed,
          pass_start, pass_invoked,
          files_at_start, interrupted, resumed,
          voice_direction, text, output_file, other, preempted, calls>>

\* nothing counted yet for an index, and the count after one more call
NoCalls == [total |-> 0, other |-> 0]
Counted(c, n, is_other) ==
    IF n \in DOMAIN c
    THEN [c EXCEPT ![n] = [total |-> @.total + 1,
                           other |-> IF is_other THEN @.other + 1
                                     ELSE @.other]]
    ELSE c

\* no second process
NoOther == [pc |-> "absent"]

NoReport == [total |-> -1, successful_count |-> -1, failed_count |-> -1,
             failed_nums |-> <<>>]

\* a batch that never finds a file
Exists_Never(f, n) == FALSE

\* a check against the directory as it was when the process began
Exists_Stale(f, n) ==
    /\ BatchOutputFile(n) \in DOMAIN files_at_start
    /\ files_at_start[BatchOutputFile(n)] # "none"

\* output_file.exists()
Exists(f, n) ==
    /\ BatchOutputFile(n) \in DOMAIN f
    /\ f[BatchOutputFile(n)] # "none"

Range == start_num..end_num

\* the fields of a fresh generator object and of the locals
FreshProcess ==
    /\ pc = "main"
    /\ exit_code = -1
    /\ failed_numbers = <<>>
    /\ i = 0
    /\ successful = 0
    /\ retry_pass = 0
    /\ current_failed = <<>>
    /\ caller = "none"
    /\ number = 0
    /\ retry_count = 0
    /\ zip_result = "none"
    /\ report = NoReport
    /\ attempts = 0
    /\ waits = <<>>
    /\ last_response = <<>>
    /\ last_result = "none"
    /\ called = {}
    /\ sleeps = <<>>
    /\ retried = {}
    /\ batch_failed = {}
    /\ pass_start = <<>>
    /\ pass_invoked = <<>>
    /\ interrupted = FALSE
    /\ text = <<>>
    /\ output_file = <<>>

\* the same fields of the process that is started next
FreshProcessNext ==
    /\ pc' = "main"
    /\ exit_code' = -1
    /\ failed_numbers' = <<>>
    /\ i' = 0
    /\ successful' = 0
    /\ retry_pass' = 0
    /\ current_failed' = <<>>
    /\ caller' = "none"
    /\ number' = 0
    /\ retry_count' = 0
    /\ zip_result' = "none"
    /\ report' = NoReport
    /\ attempts' = 0
    /\ waits' = <<>>
    /\ last_response' = <<>>
    /\ last_result' = "none"
    /\ called' = {}
    /\ sleeps' = <<>>
    /\ retried' = {}
    /\ batch_failed' = {}
    /\ pass_start' = <<>>
    /\ pass_invoked' = <<>>
    /\ interrupted' = FALSE
    /\ text' = <<>>
    /\ output_file' = <<>>

Init ==
    /\ variant \in {"openai", "elevenlabs"}
    /\ api_key \in BOOLEAN
    /\ start_num \in Numbers
    /\ end_num \in start_num..MaxNum
    /\ list_mode = FALSE
    /\ vibe_file = "absent"
    /\ voice_direction = FALSE
    /\ throttled = {}
    /\ calls = <<>>
    /\ other = NoOther
    /\ preempted = FALSE
    /\ files \in [FileNames -> {"none", "full"}]
    /\ files_at_start = files
    /\ run = 1
    /\ resumed = FALSE
    /\ FreshProcess

gsaVars == <<number, retry_count, attempts, waits, last_response,
             last_result, caller, text, output_file>>
batchVars == <<i, successful, sleeps, batch_failed>>
passVars == <<pass_start, pass_invoked>>
retryVars == <<retry_pass, current_failed, retried, pass_start, pass_invoked>>
cliVars == <<list_mode, vibe_file, throttled, voice_direction, other,
             preempted>>
envVars == <<variant, api_key, start_num, end_num, run, files_at_start,
             interrupted, resumed, list_mode, vibe_file, throttled,
             voice_direction, other, preempted>>
endVars == <<zip_result, report, exit_code>>

(* ------------------------------ main ----------------------------------- *)
\* main leaves through the vibe file code before it looks for the key:
\* load_vibe_prompts fails, or the vibes are listed
LeavesBeforeKeyCheck ==
    /\ variant = "openai"
    /\ \/ vibe_file = "invalid"
       \/ vibe_file = "valid" /\ list_mode

\* sys.exit(code) before a generator has done anything
ExitWith(code) ==
    /\ pc' = "exited"
    /\ exit_code' = code
    /\ UNCHANGED <<files, failed_numbers, called, calls, zip_result, report>>
    /\ UNCHANGED <<gsaVars, batchVars, retryVars, envVars>>

\* openai: load_vibe_prompts finds no file or no JSON -> sys.exit(1)
VibeFileError ==
    /\ pc = "main"
    /\ variant = "openai"
    /\ vibe_file = "invalid"
    /\ ExitWith(1)

\* openai: --vibe-key not in the file, or neither --vibe-key nor --vibe
VibeSelectError ==
    /\ pc = "main"
    /\ variant = "openai"
    /\ vibe_file = "valid"
    /\ ~list_mode
    /\ ExitWith(1)

\* openai: if args.list_vibes, inside if args.vibe_file; elevenlabs:
\* if args.list_voices, after the key check -> sys.exit(0)
ListAndExit ==
    /\ pc = "main"
    /\ list_mode
    /\ \/ variant = "openai" /\ vibe_file = "valid"
       \/ variant = "elevenlabs" /\ api_key
    /\ ExitWith(0)

\* elevenlabs: no --voice-id and select_voice_interactive returns None
NoVoiceSelected ==
    /\ pc = "main"
    /\ variant = "elevenlabs"
    /\ api_key
    /\ ~list_mode
    /\ ExitWith(1)

\* a main that starts the batch without looking for the key
MainStart_NoKeyCheck ==
    /\ pc = "main"
    /\ ~LeavesBeforeKeyCheck
    /\ ~(variant = "elevenlabs" /\ list_mode)
    /\ pc' = "batch"
    /\ i' = start_num
    /\ successful' = 0
    /\ UNCHANGED <<files, failed_numbers, called, calls, sleeps, batch_failed>>
    /\ UNCHANGED <<gsaVars, retryVars, envVars, endVars>>

\* main: config.is_configured() fails -> sys.exit(1)
MainNoKey ==
    /\ pc = "main"
    /\ ~LeavesBeforeKeyCheck
    /\ ~api_key
    /\ ExitWith(1)

\* main: generator created, generate_batch entered
MainStart ==
    /\ pc = "main"
    /\ ~LeavesBeforeKeyCheck
    /\ ~(variant = "elevenlabs" /\ list_mode)
    /\ api_key
    /\ pc' = "batch"
    /\ i' = start_num
    /\ successful' = 0
    /\ UNCHANGED <<files, failed_numbers, called, calls, sleeps, batch_failed>>
    /\ UNCHANGED <<gsaVars, retryVars, envVars, endVars>>

(* ------------------------- generate_batch ------------------------------ *)
\* the file of i exists: count it and continue
BatchSkip ==
    /\ pc = "batch"
    /\ i <= end_num
    /\ Exists(files, i)
    /\ successful' = successful + 1
    /\ i' = i + 1
    /\ UNCHANGED <<pc, files, failed_numbers, called, calls, sleeps, batch_failed>>
    /\ UNCHANGED <<gsaVars, retryVars, envVars, endVars>>

\* entry of generate_single_audio(n) called by c
Invoke(n, c) ==
    /\ number' = n
    /\ caller' = c
    /\ retry_count' = 0
    /\ attempts' = 0
    /\ waits' = <<>>
    /\ last_response' = <<>>
    /\ last_result' = "pending"
    /\ text' = <<>>
    /\ output_file' = <<>>
    /\ pc' = "gsa_call"

\* no file for i: success, error = self.generate_single_audio(i)
BatchInvoke ==
    /\ pc = "batch"
    /\ i <= end_num
    /\ ~Exists(files, i)
    /\ Invoke(i, "batch")
    /\ UNCHANGED <<files, failed_numbers, called, calls>>
    /\ UNCHANGED <<batchVars, retryVars, envVars, endVars>>

\* the range is done: return successful; main goes on to retry_failed
BatchComplete ==
    /\ pc = "batch"
    /\ i > end_num
    /\ pc' = "retry_failed"
    /\ UNCHANGED <<files, failed_numbers, called, calls>>
    /\ UNCHANGED <<gsaVars, batchVars, retryVars, envVars, endVars>>

\* a batch that sleeps after the last item too
SleepsAfter_Last(k, last) == k <= last

\* does generate_batch sleep delay_between_requests after item k
SleepsAfter(k, last) == k < last

\* a batch that gives up at the first failed item
Return_AbortsOnFailure(success, error) ==
    /\ last_result' = IF success THEN "success" ELSE "failure"
    /\ failed_numbers' = IF success THEN failed_numbers
                         ELSE Append(failed_numbers, <<number, error>>)
    /\ IF caller = "batch"
       THEN /\ successful' = IF success THEN successful + 1 ELSE successful
            /\ batch_failed' = IF success THEN batch_failed
                               ELSE batch_failed \cup {number}
            /\ sleeps' = IF SleepsAfter(i, end_num) THEN Append(sleeps, i)
                         ELSE sleeps
            /\ i' = i + 1
            /\ pc' = IF success THEN "batch" ELSE "exited"
            /\ UNCHANGED retryVars
       ELSE /\ pc' = "retry_items"
            /\ UNCHANGED <<batchVars, retryVars>>
    /\ UNCHANGED <<number, caller>>

\* a retry pass that forgets the items that fail again
Return_DropsRetryFailure(success, error) ==
    /\ last_result' = IF success THEN "success" ELSE "failure"
    /\ failed_numbers' = IF success \/ caller = "retry" THEN failed_numbers
                         ELSE Append(failed_numbers, <<number, error>>)
    /\ IF caller = "batch"
       THEN /\ successful' = IF success THEN successful + 1 ELSE successful
            /\ batch_failed' = IF success THEN batch_failed
                               ELSE batch_failed \cup {number}
            /\ sleeps' = IF SleepsAfter(i, end_num) THEN Append(sleeps, i)
                         ELSE sleeps
            /\ i' = i + 1
            /\ pc' = "batch"
            /\ UNCHANGED retryVars
       ELSE /\ pc' = "retry_items"
            /\ UNCHANGED <<batchVars, retryVars>>
    /\ UNCHANGED <<number, caller>>

\* a batch that sleeps the delay only after an item that succeeded
Return_NoSleepOnFailure(success, error) ==
    /\ last_result' = IF success THEN "success" ELSE "failure"
    /\ failed_numbers' = IF success THEN failed_numbers
                         ELSE Append(failed_numbers, <<number, error>>)
    /\ IF caller = "batch"
       THEN /\ successful' = IF success THEN successful + 1 ELSE successful
            /\ batch_failed' = IF success THEN batch_failed
                               ELSE batch_failed \cup {number}
            /\ sleeps' = IF SleepsAfter(i, end_num) /\ success
                         THEN Append(sleeps, i)
                         ELSE sleeps
            /\ i' = i + 1
            /\ pc' = "batch"
            /\ UNCHANGED retryVars
       ELSE /\ pc' = "retry_items"
            /\ UNCHANGED <<batchVars, retryVars>>
    /\ UNCHANGED <<number, caller>>

\* generate_single_audio returns (success, error) to its caller, which
\* runs the rest of its loop body
Return(success, error) ==
    /\ last_result' = IF success THEN "success" ELSE "failure"
    /\ failed_numbers' = IF success THEN failed_numbers
                         ELSE Append(failed_numbers, <<number, error>>)
    /\ IF caller = "batch"
       THEN /\ successful' = IF success THEN successful + 1 ELSE successful
            /\ batch_failed' = IF success THEN batch_failed
                               ELSE batch_failed \cup {number}
            /\ sleeps' = IF SleepsAfter(i, end_num) THEN Append(sleeps, i)
                         ELSE sleeps
            /\ i' = i + 1
            /\ pc' = "batch"
            /\ UNCHANGED retryVars
       ELSE /\ pc' = "retry_items"
            /\ UNCHANGED <<batchVars, retryVars>>
    /\ UNCHANGED <<number, caller>>

(* ---------------------- generate_single_audio -------------------------- *)
\* the except branch as it would be if it slept only before another attempt
CallError_NoLastSleep(e) ==
    /\ pc = "gsa_call"
    /\ MoreAttempts(retry_count)
    /\ called' = called \cup {number}
    /\ calls' = Counted(calls, number, ~IsRateLimit(variant, e))
    /\ attempts' = attempts + 1
    /\ last_response' = e
    /\ text' = Text(number, voice_direction)
    /\ UNCHANGED output_file
    /\ IF IsRateLimit(variant, e)
       THEN /\ retry_count' = retry_count + 1
            /\ waits' = IF MoreAttempts(retry_count')
                        THEN Append(waits, WaitTime(retry_count'))
                        ELSE waits
            /\ pc' = "gsa_call"
            /\ UNCHANGED <<failed_numbers, batchVars, retryVars, number,
                           caller, last_result>>
       ELSE /\ Return(FALSE, ErrGeneratingTemplate)
            /\ UNCHANGED <<retry_count, waits>>
    /\ UNCHANGED <<files, envVars, endVars>>

\* the Adapter call raises e
CallError(e) ==
    /\ pc = "gsa_call"
    /\ MoreAttempts(retry_count)
    /\ called' = called \cup {number}
    /\ calls' = Counted(calls, number, ~IsRateLimit(variant, e))
    /\ attempts' = attempts + 1
    /\ last_response' = e
    /\ text' = Text(number, voice_direction)
    /\ UNCHANGED output_file
    /\ IF IsRateLimit(variant, e)
       THEN /\ retry_count' = retry_count + 1
            /\ waits' = Append(waits, WaitTime(retry_count'))
            /\ pc' = "gsa_call"
            /\ UNCHANGED <<failed_numbers, batchVars, retryVars, number,
                           caller, last_result>>
       ELSE /\ Return(FALSE, ErrGeneratingTemplate)
            /\ UNCHANGED <<retry_count, waits>>
    /\ UNCHANGED <<files, envVars, endVars>>

CallFails == \E e \in AdapterErrors : CallError(e)

\* the loop ends with all retries used up
Exhausted ==
    /\ pc = "gsa_call"
    /\ ~MoreAttempts(retry_count)
    /\ Return(FALSE, ErrExhaustedTemplate)
    /\ UNCHANGED <<files, called, calls, retry_count, attempts, waits,
                   last_response, text, output_file>>
    /\ UNCHANGED <<envVars, endVars>>

\* the Adapter call returns the audio
CallOk ==
    /\ pc = "gsa_call"
    /\ MoreAttempts(retry_count)
    /\ called' = called \cup {number}
    /\ calls' = Counted(calls, number, FALSE)
    /\ attempts' = attempts + 1
    /\ last_response' = <<"o", "k">>
    /\ text' = Text(number, voice_direction)
    /\ UNCHANGED output_file
    /\ pc' = "gsa_open"
    /\ UNCHANGED <<files, failed_numbers, number, caller, retry_count, waits,
                   last_result>>
    /\ UNCHANGED <<batchVars, retryVars, envVars, endVars>>

\* open(output_file, "wb"): the file is created or truncated
OpenFile ==
    /\ pc = "gsa_open"
    /\ output_file' = OutputFile(number)
    /\ files' = [name \in DOMAIN files \cup {output_file'} |->
                   IF name = output_file' THEN "partial" ELSE files[name]]
    /\ pc' = "gsa_write"
    /\ UNCHANGED <<failed_numbers, called, calls>>
    /\ UNCHANGED <<number, retry_count, attempts, waits, last_response,
                   last_result, caller, text>>
    /\ UNCHANGED <<batchVars, retryVars, envVars, endVars>>

\* f.write(response.content) and the close: return True, None
WriteFile ==
    /\ pc = "gsa_write"
    /\ files' = [files EXCEPT ![output_file] = "full"]
    /\ Return(TRUE, <<>>)
    /\ UNCHANGED <<called, calls, retry_count, attempts, waits, last_response,
                   text, output_file>>
    /\ UNCHANGED <<envVars, endVars>>

\* f.write raises OSError inside the try block: except Exception takes it
WriteError ==
    /\ pc = "gsa_write"
    /\ last_response' = TextNoSpace
    /\ IF IsRateLimit(variant, TextNoSpace)
       THEN /\ retry_count' = retry_count + 1
            /\ waits' = Append(waits, WaitTime(retry_count'))
            /\ pc' = "gsa_call"
            /\ UNCHANGED <<failed_numbers, batchVars, retryVars, number,
                           caller, last_result>>
       ELSE /\ Return(FALSE, ErrGeneratingTemplate)
            /\ UNCHANGED <<retry_count, waits>>
    /\ UNCHANGED <<files, called, calls, attempts, text, output_file>>
    /\ UNCHANGED <<envVars, endVars>>

(* --------------------------- retry_failed ------------------------------ *)
\* if not self.failed_numbers: return
RetryFailedEntry ==
    /\ pc = "retry_failed"
    /\ pc' = IF failed_numbers = <<>> THEN "zip" ELSE "retry_loop"
    /\ retry_pass' = 0
    /\ UNCHANGED <<files, failed_numbers, called, calls, current_failed, retried>>
    /\ UNCHANGED passVars
    /\ UNCHANGED <<gsaVars, batchVars, envVars, endVars>>

\* a retry loop that runs one pass more
StartsPass_Inclusive(rp, failed) == rp <= max_retry_passes /\ failed # <<>>

\* for retry_count in range(max_retries): if not self.failed_numbers: break
StartsPass(rp, failed) == rp < max_retry_passes /\ failed # <<>>

\* the numbers of a sequence of failure records
NumsOf(failed) == [k \in 1..Len(failed) |-> failed[k][1]]

\* a pass that goes on appending to the list it retries
RetryPassStart_KeepsList ==
    /\ pc = "retry_loop"
    /\ IF StartsPass(retry_pass, failed_numbers)
       THEN /\ current_failed' = failed_numbers
            /\ pass_start' = NumsOf(failed_numbers)
            /\ pc' = "retry_items"
            /\ UNCHANGED failed_numbers
       ELSE /\ pc' = "zip"
            /\ UNCHANGED <<current_failed, failed_numbers, pass_start>>
    /\ UNCHANGED <<files, called, calls, retry_pass, retried, pass_invoked>>
    /\ UNCHANGED <<gsaVars, batchVars, envVars, endVars>>

\* head of the pass loop: copy the failed list and clear it, or leave
RetryPassStart ==
    /\ pc = "retry_loop"
    /\ IF StartsPass(retry_pass, failed_numbers)
       THEN /\ current_failed' = failed_numbers
            /\ failed_numbers' = <<>>
            /\ pass_start' = NumsOf(failed_numbers)
            /\ pc' = "retry_items"
       ELSE /\ pc' = "zip"
            /\ UNCHANGED <<current_failed, failed_numbers, pass_start>>
    /\ UNCHANGED pass_invoked
    /\ UNCHANGED <<files, called, calls, retry_pass, retried>>
    /\ UNCHANGED <<gsaVars, batchVars, envVars, endVars>>

\* for number, _ in current_failed: generate_single_audio(number)
RetryInvoke ==
    /\ pc = "retry_items"
    /\ current_failed # <<>>
    /\ Invoke(Head(current_failed)[1], "retry")
    /\ current_failed' = Tail(current_failed)
    /\ retried' = retried \cup {Head(current_failed)[1]}
    /\ pass_invoked' = Append(pass_invoked, Head(current_failed)[1])
    /\ UNCHANGED pass_start
    /\ UNCHANGED <<files, failed_numbers, called, calls, retry_pass>>
    /\ UNCHANGED <<batchVars, envVars, endVars>>

\* the pass is over: next value of the pass loop variable
RetryPassEnd ==
    /\ pc = "retry_items"
    /\ current_failed = <<>>
    /\ retry_pass' = retry_pass + 1
    /\ pass_start' = <<>>
    /\ pass_invoked' = <<>>
    /\ pc' = "retry_loop"
    /\ UNCHANGED <<files, failed_numbers, called, calls, current_failed, retried>>
    /\ UNCHANGED <<gsaVars, batchVars, envVars, endVars>>

(* ------------------- archive, summary, end of main --------------------- *)
\* list(self.output_dir.glob("*.wav"))
AudioFiles(f) == {name \in DOMAIN f : f[name] # "none"}

\* create_zip_archive as it would be if a failure ended the process
CreateZipArchive_Aborts ==
    /\ pc = "zip"
    /\ IF AudioFiles(files) = {}
       THEN zip_result' = "failed"
       ELSE zip_result' \in {"ok", "failed"}
    /\ IF zip_result' = "failed"
       THEN pc' = "exited" /\ exit_code' = 1
       ELSE pc' = "summary" /\ exit_code' = exit_code
    /\ UNCHANGED <<files, failed_numbers, called, calls, report>>
    /\ UNCHANGED <<gsaVars, batchVars, retryVars, envVars>>

\* create_zip_archive: False without files or on OSError, else True
CreateZipArchive ==
    /\ pc = "zip"
    /\ IF AudioFiles(files) = {}
       THEN zip_result' = "failed"
       ELSE zip_result' \in {"ok", "failed"}
    /\ pc' = "summary"
    /\ UNCHANGED <<files, failed_numbers, called, calls, report, exit_code>>
    /\ UNCHANGED <<gsaVars, batchVars, retryVars, envVars>>

\* [num for num, _ in self.failed_numbers[:10]]
FailedNums(failed) ==
    [k \in 1..(IF Len(failed) < failed_shown THEN Len(failed)
               ELSE failed_shown) |-> failed[k][1]]

\* the numbers generate_summary_report logs
SummaryOf(f, failed) ==
    [total |-> total_expected,
     successful_count |-> Cardinality(AudioFiles(f)),
     failed_count |-> Len(failed),
     failed_nums |-> FailedNums(failed)]

\* generate_summary_report, then main returns
GenerateSummaryReport ==
    /\ pc = "summary"
    /\ report' = SummaryOf(files, failed_numbers)
    /\ pc' = "done"
    /\ exit_code' = 0
    /\ UNCHANGED <<files, failed_numbers, called, calls, zip_result>>
    /\ UNCHANGED <<gsaVars, batchVars, retryVars, envVars>>

Working == {"batch", "gsa_call", "gsa_open", "gsa_write", "retry_failed",
            "retry_loop", "retry_items", "zip", "summary"}

\* except KeyboardInterrupt: sys.exit(1), anywhere inside main's try
Interrupt ==
    /\ pc \in Working
    /\ pc' = "exited"
    /\ exit_code' = 1
    /\ interrupted' = TRUE
    /\ UNCHANGED <<files, failed_numbers, called, calls, zip_result, report>>
    /\ UNCHANGED <<gsaVars, batchVars, retryVars>>
    /\ UNCHANGED <<variant, api_key, start_num, end_num, run,
                   files_at_start, resumed>>
    /\ UNCHANGED cliVars

\* the program is started again on the same directory with the same
\* arguments: nothing but the files survives
Rerun ==
    /\ pc \in {"done", "exited"}
    /\ run < MaxRuns
    /\ run' = run + 1
    /\ resumed' = interrupted
    /\ files_at_start' = files
    /\ calls' = [n \in DOMAIN calls |-> NoCalls]
    /\ FreshProcessNext
    /\ UNCHANGED <<variant, api_key, start_num, end_num, files>>
    /\ UNCHANGED cliVars

Next ==
    \/ MainNoKey
    \/ MainStart
    \/ BatchSkip
    \/ BatchInvoke
    \/ BatchComplete
    \/ CallFails
    \/ Exhausted
    \/ CallOk
    \/ OpenFile
    \/ WriteFile
    \/ WriteError
    \/ RetryFailedEntry
    \/ RetryPassStart
    \/ RetryInvoke
    \/ RetryPassEnd
    \/ CreateZipArchive
    \/ GenerateSummaryReport
    \/ Interrupt
    \/ Rerun

Spec == Init /\ [][Next]_vars

\* one process from start to end: it takes its next step whenever it has
\* one, and only KeyboardInterrupt can stop it
NextRun ==
    \/ MainNoKey
    \/ MainStart
    \/ BatchSkip
    \/ BatchInvoke
    \/ BatchComplete
    \/ CallFails
    \/ Exhausted
    \/ CallOk
    \/ OpenFile
    \/ WriteFile
    \/ WriteError
    \/ RetryFailedEntry
    \/ RetryPassStart
    \/ RetryInvoke
    \/ RetryPassEnd
    \/ CreateZipArchive
    \/ GenerateSummaryReport

NextLive ==
    \/ NextRun
    \/ Interrupt

LiveSpec == Init /\ [][NextLive]_vars /\ WF_vars(NextRun)

(* ------------------- every way of starting main ------------------------ *)
\* the command lines: list mode asked for or not, a vibe file given or not
CliInit ==
    /\ variant \in {"openai", "elevenlabs"}
    /\ api_key \in BOOLEAN
    /\ start_num \in Numbers
    /\ end_num \in start_num..MaxNum
    /\ list_mode \in BOOLEAN
    /\ vibe_file \in (IF variant = "openai"
                      THEN {"absent", "valid", "invalid"} ELSE {"absent"})
    /\ voice_direction = FALSE
    /\ throttled = {}
    /\ calls = <<>>
    /\ other = NoOther
    /\ preempted = FALSE
    /\ files \in [FileNames -> {"none", "full"}]
    /\ files_at_start = files
    /\ run = 1
    /\ resumed = FALSE
    /\ FreshProcess

CliNext ==
    \/ NextRun
    \/ VibeFileError
    \/ VibeSelectError
    \/ ListAndExit
    \/ NoVoiceSelected

CliSpec == CliInit /\ [][CliNext]_vars

(* ----------- a provider that always rate-limits some numbers ----------- *)
\* the Adapter call for a throttled number raises a rate-limit error
ThrottledCall ==
    /\ number \in throttled
    /\ \E e \in {x \in AdapterErrors : IsRateLimit(variant, x)} : CallError(e)

\* the Adapter call for any other number returns the audio
ServedCall ==
    /\ number \notin throttled
    /\ CallOk

\* an empty directory, a credential, and one number of the range that
\* the provider never serves
ThrottledInit ==
    /\ variant \in {"openai", "elevenlabs"}
    /\ api_key = TRUE
    /\ start_num \in Numbers
    /\ end_num \in start_num..MaxNum
    /\ list_mode = FALSE
    /\ vibe_file = "absent"
    /\ voice_direction = FALSE
    /\ throttled \in {{k} : k \in start_num..end_num}
    /\ calls = <<>>
    /\ other = NoOther
    /\ preempted = FALSE
    /\ files = [name \in FileNames |-> "none"]
    /\ files_at_start = files
    /\ run = 1
    /\ resumed = FALSE
    /\ FreshProcess

\* the run of main against that provider, with a disk that works
ThrottledNext ==
    \/ MainStart
    \/ BatchInvoke
    \/ BatchComplete
    \/ ThrottledCall
    \/ ServedCall
    \/ Exhausted
    \/ OpenFile
    \/ WriteFile
    \/ RetryFailedEntry
    \/ RetryPassStart
    \/ RetryInvoke
    \/ RetryPassEnd
    \/ CreateZipArchive
    \/ GenerateSummaryReport

ThrottledSpec == ThrottledInit /\ [][ThrottledNext]_vars

(* --------------- single numbers from the whole input range ------------- *)
\* values of --start: the ends of each branch of number_to_words and of
\* each width of the file name
Samples == {0, 1, 7, 15, 19, 20, 42, 99, 100, 101, 110, 115, 199, 200, 201,
            250, 299, 300, 305, 999, 1000, 1001, 8000, 10000, 12345,
            99999, 100000, 100001, 999999, 1000000}

\* main started with --start n --end n on a directory that holds the
\* file of n or nothing
SampleInit ==
    /\ variant \in {"openai", "elevenlabs"}
    /\ api_key \in BOOLEAN
    /\ start_num \in Samples
    /\ end_num = start_num
    /\ list_mode = FALSE
    /\ vibe_file = "absent"
    /\ voice_direction \in (IF variant = "openai" THEN BOOLEAN ELSE {FALSE})
    /\ throttled = {}
    /\ calls = <<>>
    /\ other = NoOther
    /\ preempted = FALSE
    /\ files \in [{BatchOutputFile(start_num)} -> {"none", "full"}]
    /\ files_at_start = files
    /\ run = 1
    /\ resumed = FALSE
    /\ FreshProcess

SampleSpec == SampleInit /\ [][NextLive]_vars

(* ------------- two processes at once on the same directory ------------- *)
\* the position, fields and locals of the process on the processor
Locals ==
    [pc |-> pc, exit_code |-> exit_code, start_num |-> start_num,
     end_num |-> end_num, failed_numbers |-> failed_numbers, i |-> i,
     successful |-> successful, retry_pass |-> retry_pass,
     current_failed |-> current_failed, caller |-> caller,
     number |-> number, retry_count |-> retry_count, text |-> text,
     output_file |-> output_file, zip_result |-> zip_result,
     report |-> report, attempts |-> attempts, waits |-> waits,
     last_response |-> last_response, last_result |-> last_result,
     called |-> called, sleeps |-> sleeps, retried |-> retried,
     batch_failed |-> batch_failed, pass_start |-> pass_start,
     pass_invoked |-> pass_invoked, files_at_start |-> files_at_start,
     interrupted |-> interrupted, calls |-> calls]

\* the operating system takes the process off the processor, wherever it
\* is, and lets the other one go on: nothing in the code holds a lock
Switch ==
    /\ other # NoOther
    /\ other' = Locals
    /\ preempted' = (preempted \/ pc \in Working)
    /\ pc' = other.pc
    /\ exit_code' = other.exit_code
    /\ start_num' = other.start_num
    /\ end_num' = other.end_num
    /\ failed_numbers' = other.failed_numbers
    /\ i' = other.i
    /\ successful' = other.successful
    /\ retry_pass' = other.retry_pass
    /\ current_failed' = other.current_failed
    /\ caller' = other.caller
    /\ number' = other.number
    /\ retry_count' = other.retry_count
    /\ text' = other.text
    /\ output_file' = other.output_file
    /\ zip_result' = other.zip_result
    /\ report' = other.report
    /\ attempts' = other.attempts
    /\ waits' = other.waits
    /\ last_response' = other.last_response
    /\ last_result' = other.last_result
    /\ called' = other.called
    /\ sleeps' = other.sleeps
    /\ retried' = other.retried
    /\ batch_failed' = other.batch_failed
    /\ pass_start' = other.pass_start
    /\ pass_invoked' = other.pass_invoked
    /\ files_at_start' = other.files_at_start
    /\ interrupted' = other.interrupted
    /\ calls' = other.calls
    /\ UNCHANGED <<files, variant, api_key, run, resumed, list_mode,
                   vibe_file, throttled, voice_direction>>

\* two commands with the credential, each with its own range, started on
\* the same directory; the second has not run yet
ConcInit ==
    /\ variant \in {"openai", "elevenlabs"}
    /\ api_key = TRUE
    /\ start_num \in Numbers
    /\ end_num \in start_num..MaxNum
    /\ list_mode = FALSE
    /\ vibe_file = "absent"
    /\ voice_direction = FALSE
    /\ throttled = {}
    /\ calls = <<>>
    /\ files \in [FileNames -> {"none", "full"}]
    /\ files_at_start = files
    /\ run = 1
    /\ resumed = FALSE
    /\ FreshProcess
    /\ preempted = FALSE
    /\ \E s \in Numbers : \E e \in s..MaxNum :
          other = [Locals EXCEPT !.start_num = s, !.end_num = e]

\* the steps of the two processes with a provider and a disk that work
ConcNext ==
    \/ MainStart
    \/ BatchSkip
    \/ BatchInvoke
    \/ BatchComplete
    \/ CallOk
    \/ OpenFile
    \/ WriteFile
    \/ RetryFailedEntry
    \/ CreateZipArchive
    \/ GenerateSummaryReport
    \/ Switch

ConcSpec == ConcInit /\ [][ConcNext]_vars

(* ------------- every number up to MaxWord, and thousands --------------- *)
\* thousands and remainders that take each branch of number_to_words
Thousands == {1, 2, 9, 10, 15, 19, 20, 42, 90, 99, 100, 101, 110, 199, 200,
              205, 250, 300, 305, 470, 999}
Remainders == {0, 1, 9, 10, 19, 20, 21, 99, 100, 101, 110, 200, 201, 219,
               300, 309, 999}
WordInputs ==
    0..MaxWord \cup {1000 * t + r : t \in Thousands, r \in Remainders}

\* main started with --start n --end n and the credential on an empty
\* directory
WordsInit ==
    /\ variant \in {"openai", "elevenlabs"}
    /\ api_key = TRUE
    /\ start_num \in WordInputs
    /\ end_num = start_num
    /\ list_mode = FALSE
    /\ vibe_file = "absent"
    /\ voice_direction = FALSE
    /\ throttled = {}
    /\ calls = <<>>
    /\ other = NoOther
    /\ preempted = FALSE
    /\ files = [name \in {BatchOutputFile(start_num)} |-> "none"]
    /\ files_at_start = files
    /\ run = 1
    /\ resumed = FALSE
    /\ FreshProcess

\* the run of main with a provider and a disk that work
WordsNext ==
    \/ MainStart
    \/ BatchInvoke
    \/ BatchComplete
    \/ CallOk
    \/ OpenFile
    \/ WriteFile
    \/ RetryFailedEntry
    \/ CreateZipArchive
    \/ GenerateSummaryReport

WordsSpec == WordsInit /\ [][WordsNext]_vars

(* ------------- the calls made for one index of the range --------------- *)
\* a run over one index that is not interrupted, with its calls counted
CountInit ==
    /\ variant \in {"openai", "elevenlabs"}
    /\ api_key \in BOOLEAN
    /\ start_num \in Numbers
    /\ end_num = start_num
    /\ list_mode = FALSE
    /\ vibe_file = "absent"
    /\ voice_direction = FALSE
    /\ throttled = {}
    /\ other = NoOther
    /\ preempted = FALSE
    /\ calls = [n \in {start_num} |-> NoCalls]
    /\ files \in [FileNames -> {"none", "full"}]
    /\ files_at_start = files
    /\ run = 1
    /\ resumed = FALSE
    /\ FreshProcess

CountSpec == CountInit /\ [][NextRun]_vars /\ WF_vars(NextRun)

TypeOK ==
    /\ pc \in Working \cup {"main", "done", "exited"}
    /\ files \in [FileNames -> {"none", "partial", "full"}]
    /\ retry_count \in 0..max_retries
    /\ retry_pass \in 0..max_retry_passes
    /\ called \subseteq Numbers
(* ============================ properties =============================== *)
Last(s) == s[Len(s)]
SleptAfter == {sleeps[k] : k \in 1..Len(sleeps)}
\* what generate_batch found for n when it reached it
Skipped(n) == files_at_start[OutputFile(n)] # "none"
\* the error texts that are rate limits for the running program
RateLimitedTexts ==
    {TextRateLimit, Text429} \cup
    (IF variant = "elevenlabs" THEN {TextQuota} ELSE {})
OtherTexts == AdapterErrors \ RateLimitedTexts
AfterBatch == {"retry_failed", "retry_loop", "retry_items", "zip", "summary",
               "done"}
AfterRetry == {"zip", "summary", "done"}

\* C1: when generate_batch reaches an index whose file exists, its step
\* (unless the process is interrupted) counts the index as successful and
\* moves on: no Adapter call, no delay slept, no file changed, nothing
\* appended to the failed list.
C1_SkipExisting ==
    [][(/\ pc = "batch"
        /\ i <= end_num
        /\ files[OutputFile(i)] # "none"
        /\ pc' # "exited")
       => (/\ successful' = successful + 1
           /\ i' = i + 1
           /\ pc' = "batch"
           /\ called' = called
           /\ attempts' = attempts
           /\ sleeps' = sleeps
           /\ files' = files
           /\ failed_numbers' = failed_numbers)]_vars

\* generate_batch has just skipped its first index
C1_Witness ==
    /\ pc = "batch"
    /\ i = start_num + 1
    /\ files_at_start[OutputFile(start_num)] = "full"
    /\ successful = 1
    /\ called = {}
    /\ sleeps = <<>>

\* C2 as claimed: generate_single_audio is never invoked, by generate_batch
\* or by retry_failed, in any run, for a number whose file exists.
C2_NeverInvokedOnExisting ==
    [][(pc \in {"batch", "retry_items"} /\ pc' = "gsa_call")
       => files[OutputFile(number')] = "none"]_vars

\* C3 as claimed: a run that found a file for every index of the range
\* ends with no Adapter call, an empty failed list and a summary of 100%
\* success: as many succeeded as the range has indices, out of as many.
C3_IdempotentRerun ==
    (/\ pc = "done"
     /\ \A n \in Range : files_at_start[OutputFile(n)] = "full")
    => (/\ called = {}
        /\ failed_numbers = <<>>
        /\ report.failed_count = 0
        /\ report.successful_count = end_num - start_num + 1
        /\ report.successful_count = report.total)

\* C4 as claimed: a run that follows an interrupted one and completes has
\* called the Adapter exactly for the indices of the range that had no
\* complete file when it started.
C4_ResumeRegeneratesMissing ==
    (resumed /\ pc = "done")
    => called = {n \in Range : files_at_start[OutputFile(n)] # "full"}

\* C5 as claimed: a process that has ended, interrupted or not, leaves no
\* truncated file in the output directory.
C5_NoTruncatedFile ==
    pc \in {"exited", "done"}
    => \A name \in FileNames : files[name] # "partial"

\* C6: the k-th rate-limited response of an invocation is followed by a
\* sleep of 60 * 2^(k-1); an invocation that returns success at its fifth
\* call has slept 60, 120, 240, 480 and has written the file.
C6_Backoff ==
    /\ [][(attempts' = attempts + 1 /\ last_response' \in RateLimitedTexts)
          => waits' = Append(waits, 60 * (2 ^ (attempts' - 1)))]_vars
    /\ []((last_result = "success" /\ attempts = 5)
          => (/\ waits = <<60, 120, 240, 480>>
              /\ files[OutputFile(number)] = "full"))

\* four rate limits, then the audio was written
C6_Witness ==
    /\ last_result = "success"
    /\ attempts = 5
    /\ waits = <<60, 120, 240, 480>>
    /\ files[OutputFile(number)] = "full"

\* C7: an invocation makes at most 5 Adapter calls; when the fifth
\* response is a rate limit, its next step (unless the process is
\* interrupted) makes no call and returns the failure with the
\* exhausted-retries text, which the caller appends to the failed list.
C7_AtMostFiveCalls ==
    /\ [](attempts <= 5)
    /\ [][(/\ pc = "gsa_call"
           /\ attempts = 5
           /\ last_response \in RateLimitedTexts
           /\ pc' # "exited")
          => (/\ attempts' = 5
              /\ called' = called
              /\ last_result' = "failure"
              /\ failed_numbers' =
                   Append(failed_numbers, <<number, ErrExhaustedTemplate>>))
       ]_vars

\* five rate limits: the invocation gave up and the item is in the list
C7_Witness ==
    /\ last_result = "failure"
    /\ attempts = 5
    /\ last_response \in RateLimitedTexts
    /\ failed_numbers # <<>>
    /\ Last(failed_numbers) = <<number, ErrExhaustedTemplate>>

\* C8: an Adapter error that is not a rate limit ends the invocation in
\* the same step with a failure, without a sleep, whatever came before;
\* the caller appends the number to the failed list; and when
\* retry_failed is over, every number generate_batch appended has been
\* invoked again by a retry pass.
C8_OtherFailsAtOnce ==
    /\ [][(attempts' = attempts + 1 /\ last_response' \in OtherTexts)
          => (/\ last_result' = "failure"
              /\ waits' = waits
              /\ pc' # "gsa_call"
              /\ Len(failed_numbers') = Len(failed_numbers) + 1
              /\ Last(failed_numbers')[1] = number)]_vars
    /\ [](pc \in AfterRetry => batch_failed \subseteq retried)

\* retry_failed is over and has invoked every number generate_batch had
\* appended; its last invocation got two rate limits and then an error of
\* another kind, and returned the failure
C8_Witness ==
    /\ pc \in AfterRetry
    /\ batch_failed # {}
    /\ batch_failed \subseteq retried
    /\ last_result = "failure"
    /\ last_response \in OtherTexts
    /\ Len(waits) = 2

\* C9 as claimed: the record appended for an error that is not a rate
\* limit is the number with the text of that error.
C9_RawErrorText ==
    [][(attempts' = attempts + 1 /\ last_response' \in OtherTexts)
       => Last(failed_numbers') = <<number, last_response'>>]_vars

\* C10 as claimed: when generate_batch is over, the delay has been slept
\* after every index but the last that was skipped or succeeded, and not
\* after the last index.
C10_DelayAfterSkippedOrSucceeded ==
    pc \in AfterBatch
    => (/\ \A n \in Range :
              (n < end_num /\ n \notin batch_failed) => n \in SleptAfter
        /\ end_num \notin SleptAfter)

\* C10 amended: when generate_batch is over, the delay has been slept
\* after every index but the last that succeeded, after no skipped index,
\* and not after the last index.
C10_DelayAfterSucceeded ==
    pc \in AfterBatch
    => (/\ \A n \in Range :
              (n < end_num /\ ~Skipped(n) /\ n \notin batch_failed)
              => n \in SleptAfter
        /\ \A n \in Range : Skipped(n) => n \notin SleptAfter
        /\ end_num \notin SleptAfter)

\* a batch of two: the first index succeeded and was slept after, the
\* second was skipped
C10_Witness ==
    /\ pc \in AfterBatch
    /\ start_num < end_num
    /\ ~Skipped(start_num)
    /\ start_num \notin batch_failed
    /\ Skipped(end_num)
    /\ sleeps = <<start_num>>

\* the file of n is not a complete artifact
NotComplete(n) == files[OutputFile(n)] # "full"

\* C11: retry_failed runs at most 3 passes and begins one only with a
\* non-empty failed list, which it takes over whole; when a pass ends it
\* has invoked generate_single_audio once for each number the list held
\* when the pass began, in that order, and the failed list holds exactly
\* those of them that have no complete file, each once.
C11_RetryPasses ==
    /\ [](retry_pass <= 3)
    /\ [][(pc = "retry_loop" /\ pc' = "retry_items")
          => (/\ retry_pass < 3
              /\ failed_numbers # <<>>
              /\ current_failed' = failed_numbers)]_vars
    /\ [][(pc = "retry_items" /\ pc' = "retry_loop")
          => (/\ pass_invoked = pass_start
              /\ NumsOf(failed_numbers) = SelectSeq(pass_start, NotComplete))
       ]_vars

\* the end of a pass over two numbers of which one failed again
C11_Witness ==
    /\ pc = "retry_items"
    /\ current_failed = <<>>
    /\ Len(pass_start) = 2
    /\ pass_invoked = pass_start
    /\ Len(failed_numbers) = 1
    /\ last_result # "pending"

\* n was generated by generate_batch itself
SucceededInBatch(n) ==
    /\ ~Skipped(n)
    /\ n \notin batch_failed
    /\ n \in called

\* C12: whatever the Adapter and the disk answer, a process that has its
\* credential is stopped by nothing but KeyboardInterrupt: generate_batch
\* visits the indices in ascending order, when it is over every index of
\* the range is skipped, succeeded or failed, and the process goes on
\* through the retry passes and the archive to the summary and ends.
C12_FailuresNeverAbort ==
    /\ [](pc = "exited" => (interrupted \/ ~api_key))
    /\ [][i' # i => (i' = i + 1 \/ (pc = "main" /\ i' = start_num))]_vars
    /\ [](pc \in AfterBatch
          => \A n \in Range :
                \/ Skipped(n) /\ n \notin batch_failed /\ n \notin called
                \/ SucceededInBatch(n) /\ files[OutputFile(n)] = "full"
                \/ n \in batch_failed /\ ~Skipped(n))
    /\ ((api_key /\ pc = "batch")
        ~> (pc \in AfterBatch \/ interrupted))
    /\ ((api_key /\ pc \in AfterBatch)
        ~> ((pc = "done" /\ zip_result # "none" /\ report # NoReport)
            \/ interrupted))

\* a run that ended with its summary although both items of its batch
\* failed, one on rate limits and one on another error
C12_Witness ==
    /\ pc = "done"
    /\ ~interrupted
    /\ batch_failed = {1, 2}
    /\ Len(failed_numbers) = 2
    /\ failed_numbers[1][2] # failed_numbers[2][2]
    /\ report # NoReport

\* C13: a run on an empty directory in which the provider rate-limits
\* every call for one number k of the range and serves every other number
\* ends with a summary of end - start succeeded, 1 failed, and the failed
\* list [k].
C13_OneThrottledItem ==
    pc = "done"
    => (/\ report.successful_count = end_num - start_num
        /\ report.failed_count = 1
        /\ \E k \in throttled : report.failed_nums = <<k>>)

\* the summary of the range 1..2 in which 1 was never served
C13_Witness ==
    /\ pc = "done"
    /\ start_num = 1
    /\ end_num = 2
    /\ throttled = {1}
    /\ retry_pass = 3
    /\ report.successful_count = 1
    /\ report.failed_count = 1
    /\ report.failed_nums = <<1>>

\* the numbers of the final failed list
FinalFailed == {failed_numbers[k][1] : k \in 1..Len(failed_numbers)}

\* C14 as claimed: the summary of a completed run reports as succeeded the
\* number of indices of the range that ended skipped or succeeded, as
\* failed the length of the final failed list, and the two add up to the
\* size of the range.
C14_SummaryCounts ==
    pc = "done"
    => (/\ report.successful_count = Cardinality(Range \ FinalFailed)
        /\ report.failed_count = Len(failed_numbers)
        /\ report.successful_count + report.failed_count
             = end_num - start_num + 1)

C16_ListModeDoesNoWork ==
    (list_mode /\ api_key /\ vibe_file # "invalid")
    => (/\ pc \in {"main", "exited"}
        /\ pc = "exited" => exit_code = 0
        /\ called = {}
        /\ files = files_at_start
        /\ zip_result = "none")

\* the step is the start of another process
IsRerun == run' # run

\* C17: within a process create_zip_archive returns once, at the position
\* that follows retry_failed, where the main pass is over its range and
\* the retry passes are used up or have nothing left to retry; when it returns False, the step makes no
\* Adapter call, leaves the failed list alone and leads to the summary;
\* no later step of the process calls the Adapter or changes the failed
\* list; and a process that ends normally has archived and has reported.
C17_ArchiveOnceAtEnd ==
    /\ [][(zip_result' # zip_result /\ ~IsRerun)
          => (/\ zip_result = "none"
              /\ pc = "zip"
              /\ pc' = "summary"
              /\ called' = called
              /\ failed_numbers' = failed_numbers)]_vars
    /\ [][(zip_result # "none" /\ ~IsRerun)
          => (/\ called' = called
              /\ attempts' = attempts
              /\ failed_numbers' = failed_numbers
              /\ files' = files
              /\ pc' \in {"summary", "done", "exited"})]_vars
    /\ [](pc = "zip"
          => (/\ zip_result = "none"
              /\ i > end_num
              /\ current_failed = <<>>
              /\ failed_numbers = <<>> \/ retry_pass = 3))
    /\ [](pc = "done" => (zip_result # "none" /\ report # NoReport))
    /\ [](AudioFiles(files) = {} /\ pc \in {"summary", "done"}
          => zip_result = "failed")

\* the archive failed for want of files, the failed list is still there
\* and the summary was produced
C17_Witness ==
    /\ pc = "done"
    /\ zip_result = "failed"
    /\ AudioFiles(files) = {}
    /\ failed_numbers # <<>>
    /\ report.failed_count = Len(failed_numbers)
    /\ report.successful_count = 0

\* the twelve numbers and the words stated for them
ExampleNumbers == {0, 15, 42, 100, 101, 115, 200, 250, 305, 999, 1000, 8000}
ExampleWords(n) ==
    CASE
          n = 0 -> <<"z", "e", "r", "o">>
       [] n = 15 -> <<"f", "i", "f", "t", "e", "e", "n">>
       [] n = 42 -> <<"f", "o", "r", "t", "y", " ", "t", "w", "o">>
       [] n = 100 -> <<"o", "n", "e", " ", "h", "u", "n", "d", "r", "e", "d">>
       [] n = 101 -> <<"o", "n", "e", " ", "o", "h", " ", "o", "n", "e">>
       [] n = 115 -> <<"o", "n", "e", " ", "f", "i", "f", "t", "e", "e", "n">>
       [] n = 200 -> <<"t", "w", "o", " ", "h", "u", "n", "d", "r", "e", "d">>
       [] n = 250 -> <<"t", "w", "o", " ", "f", "i", "f", "t", "y">>
       [] n = 305 -> <<"t", "h", "r", "e", "e", " ", "o", "h", " ", "f", "i", "v", "e">>
       [] n = 999 -> <<"n", "i", "n", "e", " ", "n", "i", "n", "e", "t", "y", " ", "n", "i", "n", "e">>
       [] n = 1000 -> <<"o", "n", "e", " ", "t", "h", "o", "u", "s", "a", "n", "d">>
       [] n = 8000 -> <<"e", "i", "g", "h", "t", " ", "t", "h", "o", "u", "s", "a", "n", "d">>

\* C18: whenever generate_single_audio has handed a text to the Adapter
\* for one of the twelve example numbers, without a voice direction, that
\* text is exactly the words stated: 0 "zero", 15 "fifteen", 42 "forty
\* two", 100 "one hundred", 101 "one oh one", 115 "one fifteen", 200 "two
\* hundred", 250 "two fifty", 305 "three oh five", 999 "nine ninety nine",
\* 1000 "one thousand", 8000 "eight thousand"; with a voice direction the
\* text ends with those words.
C18_NumberToWords ==
    (attempts > 0 /\ number \in ExampleNumbers)
    => (/\ ~voice_direction => text = ExampleWords(number)
        /\ voice_direction
           => (/\ Len(text) > Len(ExampleWords(number))
               /\ SubSeq(text, Len(text) - Len(ExampleWords(number)) + 1,
                         Len(text)) = ExampleWords(number)))

\* the Adapter was asked for "eight thousand" and the file of 8000 written
C18_Witness ==
    /\ number = 8000
    /\ ~voice_direction
    /\ text = <<"e", "i", "g", "h", "t", " ", "t", "h", "o", "u", "s", "a", "n", "d">>
    /\ last_result = "success"
    /\ files[output_file] = "full"

\* the value of a decimal digit character, -1 for any other character
DigitValue(c) ==
    CASE c = "0" -> 0 [] c = "1" -> 1 [] c = "2" -> 2 [] c = "3" -> 3
      [] c = "4" -> 4 [] c = "5" -> 5 [] c = "6" -> 6 [] c = "7" -> 7
      [] c = "8" -> 8 [] c = "9" -> 9 [] OTHER -> -1
RECURSIVE ParseDecimal(_)
ParseDecimal(s) ==
    IF s = <<>> THEN 0
    ELSE 10 * ParseDecimal(SubSeq(s, 1, Len(s) - 1)) + DigitValue(s[Len(s)])

\* the part of a file name before the extension
Stem(name) == SubSeq(name, 1, Len(name) - Len(WavExt))
\* s is w decimal digits followed by the extension and reads as n
IsNameOf(name, n, w) ==
    /\ Len(name) = w + Len(WavExt)
    /\ SubSeq(name, w + 1, Len(name)) = WavExt
    /\ \A k \in 1..w : DigitValue(name[k]) >= 0
    /\ ParseDecimal(Stem(name)) = n
\* the name generate_single_audio opened is the one generate_batch looks
\* for, and no other number of the inputs has it
SameAndDistinct ==
    /\ output_file = BatchOutputFile(number)
    /\ \A m \in Samples : m # number => BatchOutputFile(m) # output_file
    /\ \A m \in Samples : m # number => OutputFile(m) # output_file
NumberItems == 1..999999

\* C19 as stated: for every n in 1..999999 the file generate_single_audio
\* opens has exactly 5 zero-padded decimal digits before the extension,
\* is the name generate_batch checks, and is the name of no other index.
C19_FiveDigitsAlways ==
    (output_file # <<>> /\ number \in NumberItems)
    => (/\ IsNameOf(output_file, number, 5)
        /\ SameAndDistinct)

\* C19: for every n in 1..999999 the file generate_single_audio opens is
\* the decimal digits of n zero-padded to at least 5 digits (exactly 5 up
\* to 99999, 6 from 100000 on) plus the extension, is the name
\* generate_batch checks, and is the name of no other index.
C19_AtLeastFiveDigits ==
    (output_file # <<>> /\ number \in NumberItems)
    => (/\ IsNameOf(output_file, number, IF number <= 99999 THEN 5 ELSE 6)
        /\ SameAndDistinct)

\* the file of 100000 was written under a six-digit name
C19_Witness ==
    /\ number = 100000
    /\ output_file = <<"1", "0", "0", "0", "0", "0">> \o WavExt
    /\ files[output_file] = "full"
    /\ last_result = "success"

\* the character c without its case, for the letters of the error texts
FoldCase(c) ==
    CASE c \in {"C", "c"} -> "c" [] c \in {"E", "e"} -> "e"
      [] c \in {"N", "n"} -> "n" [] c \in {"Q", "q"} -> "q"
      [] c \in {"R", "r"} -> "r" [] OTHER -> c
\* word occurs in s at position k, case ignored
OccursAt(word, s, k) ==
    /\ k + Len(word) - 1 <= Len(s)
    /\ \A j \in 1..Len(word) : FoldCase(s[k + j - 1]) = FoldCase(word[j])
Mentions(s, word) == \E k \in 1..Len(s) : OccursAt(word, s, k)

ErrorTexts == AdapterErrors \cup {TextNoSpace}
\* the step in which generate_single_audio catches an exception
CatchesError ==
    /\ pc \in {"gsa_call", "gsa_write"}
    /\ last_response' \in ErrorTexts
    /\ attempts' = attempts + 1 \/ pc = "gsa_write"
\* that step takes the backoff-and-retry path
BacksOff ==
    /\ retry_count' = retry_count + 1
    /\ Len(waits') = Len(waits) + 1
    /\ pc' = "gsa_call"
    /\ last_result' = "pending"
    /\ failed_numbers' = failed_numbers
\* that step returns the failure at once
FailsAtOnce ==
    /\ retry_count' = retry_count
    /\ waits' = waits
    /\ pc' # "gsa_call"
    /\ last_result' = "failure"
    /\ Len(failed_numbers') = Len(failed_numbers) + 1

\* C20 as stated: every caught error either takes the backoff path or
\* fails at once, and it takes the backoff path exactly when its text,
\* case ignored, contains "rate limit", "429" or "quota".
C20_ThreeKeywords ==
    [][CatchesError
       => LET e == last_response' IN
          /\ BacksOff \/ FailsAtOnce
          /\ BacksOff <=> (\/ Mentions(e, KwRateLimit)
                           \/ Mentions(e, Kw429)
                           \/ Mentions(e, KwQuota))]_vars

\* C20: every caught error either takes the backoff path or fails at
\* once, and it takes the backoff path exactly when its text, case
\* ignored, contains "rate limit" or "429", or, in the elevenlabs variant
\* only, "quota".
C20_KeywordsOfVariant ==
    [][CatchesError
       => LET e == last_response' IN
          /\ BacksOff \/ FailsAtOnce
          /\ ~(BacksOff /\ FailsAtOnce)
          /\ BacksOff <=> (\/ Mentions(e, KwRateLimit)
                           \/ Mentions(e, Kw429)
                           \/ /\ variant = "elevenlabs"
                              /\ Mentions(e, KwQuota))]_vars

\* the openai variant got a quota error on the first call and returned
\* the failure without a sleep
C20_Witness ==
    /\ variant = "openai"
    /\ last_response = TextQuota
    /\ attempts = 1
    /\ waits = <<>>
    /\ last_result = "failure"
    /\ failed_numbers # <<>>

\* the numbers both processes have called the Adapter for
CalledByBoth == called \cap other.called

\* C21: with two processes on one directory, as long as neither has been
\* taken off the processor in mid-run (one ran from start to end before
\* the other: a sequential restart) no index has been called for by both;
\* and an index both have called for had no file when they began. The
\* state in which both have called for and written the same index is
\* reachable once their steps interleave (C21_Witness).
C21_OnlyInterleavedRunsCollide ==
    /\ ~preempted => CalledByBoth = {}
    /\ \A n \in CalledByBoth :
          /\ files_at_start[OutputFile(n)] = "none"
          /\ other.files_at_start[OutputFile(n)] = "none"
          /\ n \in start_num..end_num
          /\ n \in other.start_num..other.end_num

\* both processes checked for the file of the same index before either
\* had written it: each called the Adapter for it and each wrote the file
C21_Witness ==
    /\ preempted
    /\ number = other.number
    /\ number \in CalledByBoth
    /\ last_result = "success"
    /\ other.last_result = "success"
    /\ output_file = other.output_file
    /\ files[output_file] = "full"

\* the word of a digit 1..9
DigitWord(d) ==
    CASE
         d = 1 -> <<"o", "n", "e">>
      [] d = 2 -> <<"t", "w", "o">>
      [] d = 3 -> <<"t", "h", "r", "e", "e">>
      [] d = 4 -> <<"f", "o", "u", "r">>
      [] d = 5 -> <<"f", "i", "v", "e">>
      [] d = 6 -> <<"s", "i", "x">>
      [] d = 7 -> <<"s", "e", "v", "e", "n">>
      [] d = 8 -> <<"e", "i", "g", "h", "t">>
      [] d = 9 -> <<"n", "i", "n", "e">>

\* C22: for every n in 100..999, with h = n div 100 and r = n mod 100, the
\* text handed to the Adapter is "<word(h)> hundred" when r = 0,
\* "<word(h)> oh <word(r)>" when 1 <= r <= 9, and "<word(h)> " followed
\* by number_to_words(r) when r >= 10: the same rule in the bands 100-199
\* and 200-299 as in 300-999.
C22_HundredsRule ==
    (attempts > 0 /\ number \in 100..999)
    => LET h == number \div 100
           r == number % 100
       IN  text = IF r = 0 THEN DigitWord(h) \o <<" ", "h", "u", "n", "d", "r", "e", "d">>
                  ELSE IF r <= 9
                  THEN DigitWord(h) \o <<" ", "o", "h", " ">> \o DigitWord(r)
                  ELSE DigitWord(h) \o <<" ">> \o number_to_words(r)

\* 105, of the band with its own branch, was spoken as "one oh five"
C22_Witness ==
    /\ number = 105
    /\ text = <<"o", "n", "e", " ", "o", "h", " ", "f", "i", "v", "e">>
    /\ last_result = "success"

\* s has no space at either end and no two spaces in a row
SingleSpaced(s) ==
    /\ s # <<>>
    /\ s[1] # " "
    /\ s[Len(s)] # " "
    /\ \A k \in 1..(Len(s) - 1) : ~(s[k] = " " /\ s[k + 1] = " ")

\* C23: for every n in 1000..999999 the text handed to the Adapter is
\* number_to_words(n div 1000) followed by " thousand", followed by " "
\* and number_to_words(n mod 1000) exactly when n mod 1000 is not 0; it is
\* not empty, has single spaces between words and none at its ends.
C23_ThousandsRule ==
    (attempts > 0 /\ number \in 1000..999999)
    => LET t == number \div 1000
           r == number % 1000
       IN  /\ text = number_to_words(t) \o <<" ", "t", "h", "o", "u", "s", "a", "n", "d">>
                     \o (IF r # 0 THEN <<" ">> \o number_to_words(r)
                         ELSE <<>>)
           /\ SingleSpaced(text)
           /\ SingleSpaced(number_to_words(t))
           /\ r # 0 => SingleSpaced(number_to_words(r))

\* 101219 was spoken as "one oh one thousand two nineteen"
C23_Witness ==
    /\ number = 101219
    /\ text = <<"o", "n", "e", " ", "o", "h", " ", "o", "n", "e", " ", "t", "h", "o", "u", "s", "a", "n", "d", " ", "t", "w", "o", " ", "n", "i", "n", "e", "t", "e", "e", "n">>
    /\ last_result = "success"

\* the positions between two items of generate_batch or of a retry pass,
\* and after them
BetweenItems == {"batch", "retry_failed", "retry_loop", "retry_items",
                 "zip", "summary", "done"}
\* the failed list followed by the items the current pass has yet to retry
FailedAndPending == NumsOf(failed_numbers) \o NumsOf(current_failed)
Ascending(q) == \A k \in 1..(Len(q) - 1) : q[k] < q[k + 1]

\* C24 as claimed: between items, the failed list together with the items
\* still pending in the current retry pass holds only indices of the range,
\* none twice, in ascending order, and none that has a file.
C24_FailedSetInvariant ==
    pc \in BetweenItems
    => (/\ \A k \in 1..Len(FailedAndPending) : FailedAndPending[k] \in Range
        /\ Ascending(FailedAndPending)
        /\ \A k \in 1..Len(FailedAndPending) :
              files[OutputFile(FailedAndPending[k])] = "none")

\* the retry passes begun so far
PassesBegun ==
    IF pc \in {"batch", "main"} \/ (pc \in {"gsa_call", "gsa_open",
                                            "gsa_write"} /\ caller = "batch")
    THEN 0
    ELSE IF pc \in {"retry_failed", "retry_loop"} THEN retry_pass
    ELSE IF pc \in {"retry_items", "gsa_call", "gsa_open", "gsa_write"}
    THEN retry_pass + 1
    ELSE 3

\* C25: a run that is not interrupted ends (with the credential: at the
\* end of main, the summary written); for any single index it makes at
\* most 5 Adapter calls in the main pass and at most 5 more in each retry
\* pass begun, of which there are at most 3, so at most 20; and an index
\* whose every call was answered with an error of the kind Other has had
\* exactly 4 calls when the run ends.
C25_CallsPerIndex ==
    /\ [](\A n \in DOMAIN calls :
             /\ calls[n].total <= 20
             /\ PassesBegun <= 3
             /\ calls[n].total <= 5 * (1 + PassesBegun))
    /\ [](\A n \in DOMAIN calls :
             (pc = "done" /\ calls[n].total > 0
              /\ calls[n].other = calls[n].total)
             => calls[n].total = 4)
    /\ <>(pc \in {"done", "exited"})
    /\ [](api_key => <>(pc = "done" /\ report # NoReport))

\* an index that was rate-limited four times and then refused in the main
\* pass and in each of the three retry passes: 20 calls
C25_Witness ==
    /\ pc = "done"
    /\ \E n \in DOMAIN calls : calls[n].total = 20 /\ calls[n].other = 4

RECURSIVE SumSeq(_)
SumSeq(q) == IF q = <<>> THEN 0 ELSE q[1] + SumSeq(Tail(q))

\* C26: the fifth rate-limited response of an invocation is followed, in
\* the same step and before the invocation returns, by a fifth sleep, of
\* 16 times the base; the next step of the process returns the failure
\* without another sleep; and an invocation that has given up after five
\* rate limits has slept 60, 120, 240, 480 and 960 seconds, 31 times the
\* base in all.
C26_SleepsAfterLastRateLimit ==
    /\ [][(/\ attempts = 4
           /\ attempts' = 5
           /\ last_response' \in RateLimitedTexts)
          => (/\ waits' = Append(waits, 16 * 60)
              /\ Len(waits') = 5
              /\ last_result' = "pending"
              /\ failed_numbers' = failed_numbers)]_vars
    /\ [][(/\ pc = "gsa_call"
           /\ attempts = 5
           /\ pc' \notin {"gsa_call", "exited"})
          => (/\ waits' = waits
              /\ attempts' = attempts)]_vars
    /\ []((/\ last_result = "failure"
           /\ attempts = 5
           /\ last_response \in RateLimitedTexts)
          => (/\ waits = <<60, 120, 240, 480, 960>>
              /\ SumSeq(waits) = 31 * 60))

\* five rate limits, five sleeps, then the exhausted-retries failure
C26_Witness ==
    /\ pc = "batch"
    /\ last_result = "failure"
    /\ attempts = 5
    /\ last_response \in RateLimitedTexts
    /\ waits = <<60, 120, 240, 480, 960>>
    /\ SumSeq(waits) = 1860
    /\ Last(failed_numbers) = <<number, ErrExhaustedTemplate>>

\* the indices before the last that generate_batch did not skip
InvokedBeforeLast == {n \in start_num..(end_num - 1) : ~Skipped(n)}

\* C27: the step in which generate_single_audio returns to generate_batch
\* for an index before the last sleeps the delay once, whether it returns
\* success or failure; and when generate_batch is over, the delay has been
\* slept once after each index before the last that was not skipped and
\* after no other, so as many times as there are such indices.
C27_DelayAfterEveryInvocation ==
    /\ [][(/\ pc \in {"gsa_call", "gsa_write"}
           /\ caller = "batch"
           /\ pc' = "batch")
          => (/\ last_result' \in {"success", "failure"}
              /\ sleeps' = IF i < end_num THEN Append(sleeps, i)
                           ELSE sleeps)]_vars
    /\ [](pc \in AfterBatch
          => (/\ Len(sleeps) = Cardinality(InvokedBeforeLast)
              /\ SleptAfter = InvokedBeforeLast
              /\ Ascending(sleeps)))

\* a batch of two on an empty directory: the first index failed and the
\* delay was slept after it, and only after it
C27_Witness ==
    /\ pc \in AfterBatch
    /\ start_num < end_num
    /\ InvokedBeforeLast = {start_num}
    /\ ~Skipped(end_num)
    /\ start_num \in batch_failed
    /\ sleeps = <<start_num>>
====
